---- MODULE Spec2Model ----
(***************************************************************************)
(* The JNI binding of the LC3 codec (lc3_jni.cpp): six native entry points *)
(* that allocate, release and drive encoder and decoder instances living   *)
(* in malloc'ed blocks.  Each entry point is one action.  The codec        *)
(* library behind lc3.h is modelled at its interface.                      *)
(*                                                                         *)
(* The pcm format and the stride are forwarded to the library unchanged    *)
(* and select no path of the binding; they are not part of the state.      *)
(***************************************************************************)
EXTENDS Integers, Sequences, FiniteSets, TLC

VARIABLES heap, handles, crashed, last

vars == <<heap, handles, crashed, last>>

(* ---------------- bounds ---------------- *)
\* number of addresses malloc can hand out
NumAddr == 2
\* frames an instance processes before the model stops feeding it
MaxFrames == 2

(* ---------------- memory ---------------- *)
NULL == 0
Addr == 1 .. NumAddr

NoBlock == [kind |-> "free", size |-> 0, dt |-> 0, sr |-> 0, srPcm |-> 0, hist |-> 0]

RawBlock(sz) == [kind |-> "raw", size |-> sz, dt |-> 0, sr |-> 0, srPcm |-> 0, hist |-> 0]

Instance(k, sz, dtUs, srHz, srPcmHz) ==
    [kind |-> k, size |-> sz, dt |-> dtUs, sr |-> srHz, srPcm |-> srPcmHz, hist |-> 0]

IsInstance(b) == b.kind \in {"enc", "dec"}

\* malloc(sz): a null pointer (allocation failure, or the null a zero-size
\* request may yield) or any unallocated address
malloc(hp, sz) == {NULL} \cup {a \in Addr : hp[a] = NoBlock}

free(hp, mem) == [hp EXCEPT ![mem] = NoBlock]

(* ---------------- frame geometry (lc3.h) ---------------- *)
SupportedDurations == {7500, 10000}
SupportedRates == {8000, 16000, 24000, 32000, 48000}

\* samples in one frame
NS(dtUs, srHz) == (dtUs * srHz) \div 1000000
\* samples of history kept across frames
ND(dtUs, srHz) == IF dtUs = 7500 THEN (23 * NS(dtUs, srHz)) \div 30
                                 ELSE (5 * NS(dtUs, srHz)) \div 8

SupportedPair(dtUs, srHz) == dtUs \in SupportedDurations /\ srHz \in SupportedRates

SupportedConfig(dtUs, srHz, srPcmHz) ==
    /\ SupportedPair(dtUs, srHz)
    /\ srPcmHz \in SupportedRates
    /\ srHz <= srPcmHz

lc3_encoder_size(dtUs, srHz) ==
    IF SupportedPair(dtUs, srHz) THEN 4 * (NS(dtUs, srHz) + ND(dtUs, srHz)) ELSE 0

lc3_decoder_size(dtUs, srHz) ==
    IF SupportedPair(dtUs, srHz) THEN 4 * (2 * NS(dtUs, srHz) + ND(dtUs, srHz)) ELSE 0

\* the footprint of a set-up instance: its buffers hold PCM-rate samples
RequiredSize(b) == IF b.kind = "enc" THEN lc3_encoder_size(b.dt, b.srPcm)
                                     ELSE lc3_decoder_size(b.dt, b.srPcm)

Overflows(b) == IsInstance(b) /\ b.size < RequiredSize(b)

lc3_setup_encoder(dtUs, srHz, srPcmHz, mem) ==
    IF SupportedConfig(dtUs, srHz, srPcmHz) /\ mem # NULL THEN mem ELSE NULL

lc3_setup_decoder(dtUs, srHz, srPcmHz, mem) ==
    IF SupportedConfig(dtUs, srHz, srPcmHz) /\ mem # NULL THEN mem ELSE NULL

\* An instance that extends past its block writes past it: the write lands
\* in allocator slack (nothing visible) or in another instance's state.
\* Setting up writes zeros there, coding a frame writes samples.
OutOfBounds(hp, h, values) ==
    IF Overflows(hp[h])
    THEN {hp} \cup {[hp EXCEPT ![v].hist = x] :
                       v \in {a \in Addr \ {h} : IsInstance(hp[a])}, x \in values}
    ELSE {hp}

(* ---------------- codec calls (lc3.h) ---------------- *)
MinFrameBytes == 20
MaxFrameBytes == 400

\* lc3_encode: a capacity below the minimum is rejected before anything is
\* touched; otherwise one frame is coded into at most nbytes bytes and the
\* history moves on by one frame.
lc3_encode(enc, nbytes) ==
    IF nbytes < MinFrameBytes
    THEN [ret |-> -1, inst |-> enc, written |-> 0]
    ELSE LET n == IF nbytes < MaxFrameBytes THEN nbytes ELSE MaxFrameBytes
         IN  [ret |-> n, inst |-> [enc EXCEPT !.hist = @ + 1], written |-> n]

\* lc3_decode: an absent or empty frame, or one failing the integrity check,
\* is concealed and counts as success; a structurally impossible frame gives
\* a non-zero status with a concealed frame as output.  Every call writes one
\* frame of PCM and moves the history on by one frame.
lc3_decode(dec, inIsNull, nbytes, body) ==
    LET empty == inIsNull \/ nbytes = 0
        bad   == ~empty /\ body = "malformed"
    IN  [ret       |-> IF bad THEN -1 ELSE 0,
         inst      |-> [dec EXCEPT !.hist = @ + 1],
         pcm       |-> NS(dec.dt, dec.srPcm),
         plc       |-> empty \/ body \in {"corrupt", "malformed"},
         malformed |-> bad]

(* ---------------- JNI array access (jni.h) ---------------- *)
JNI_ABORT == 2

\* what the Java array shows after ReleaseByteArrayElements: a copy handed
\* out by GetByteArrayElements is copied back unless the mode is JNI_ABORT
ReleaseByteArrayElements(written, isCopy, mode) ==
    IF isCopy /\ mode = JNI_ABORT THEN 0 ELSE written

(* ---------------- the record of the latest call ---------------- *)
NoCall == [op |-> "none", handle |-> NULL, ret |-> 0, returned |-> TRUE,
           cfgOk |-> TRUE, len |-> 0, nbytes |-> 0,
           acquired |-> <<>>, released |-> <<>>, visible |-> 0, frame |-> 0,
           plc |-> FALSE, malformed |-> FALSE]

(* ---------------- inputs ---------------- *)
DurationInputs == {10000, 5000}
RateInputs == {16000, 48000, 44100}
OutLengths == {0, 19, 20, 401}
InBuffers == {[isNull |-> TRUE,  len |-> 0,  body |-> "none"],
              [isNull |-> FALSE, len |-> 0,  body |-> "none"],
              [isNull |-> FALSE, len |-> 40, body |-> "good"],
              [isNull |-> FALSE, len |-> 40, body |-> "corrupt"],
              [isNull |-> FALSE, len |-> 40, body |-> "malformed"]}
\* what GetArrayLength may yield for a null array, when it yields anything
GarbageLengths == {0, 40}
NullArrayOutcomes == {"abort74", "abort78", "return"}

(* ---------------- state after loading the library ---------------- *)
Init ==
    /\ heap = [a \in Addr |-> NoBlock]
    /\ handles = {}
    /\ crashed = FALSE
    /\ last = NoCall

(* ---------------- Encoder ---------------- *)
EncoderHandle_mem(enc, mem) == mem

\* lc3_jni.cpp line 13: the handle is the pointer lc3_setup_encoder returned
EncoderHandle(enc, mem) == enc

createEncoder(dtUs, srHz, srPcmHz) ==
    /\ ~crashed
    /\ LET sz == lc3_encoder_size(dtUs, srHz) IN
       \E mem \in malloc(heap, sz) :
          LET enc == lc3_setup_encoder(dtUs, srHz, srPcmHz, mem)
              hp1 == IF mem = NULL THEN heap
                     ELSE [heap EXCEPT ![mem] =
                              IF enc # NULL
                              THEN Instance("enc", sz, dtUs, srHz, srPcmHz)
                              ELSE RawBlock(sz)]
              ret == EncoderHandle(enc, mem)
          IN  /\ heap' \in (IF enc # NULL THEN OutOfBounds(hp1, enc, {0}) ELSE {hp1})
              /\ handles' = IF ret # NULL THEN handles \cup {ret} ELSE handles
              /\ last' = [NoCall EXCEPT !.op = "createEncoder", !.ret = ret,
                             !.cfgOk = SupportedConfig(dtUs, srHz, srPcmHz)]
    /\ UNCHANGED crashed

freeEncoder_keep(handle) ==
    /\ ~crashed
    /\ handles' = handles \ {handle}
    /\ last' = [NoCall EXCEPT !.op = "freeEncoder", !.handle = handle]
    /\ UNCHANGED <<heap, crashed>>

freeEncoder(handle) ==
    /\ ~crashed
    /\ heap' = IF handle # NULL THEN free(heap, handle) ELSE heap
    /\ handles' = handles \ {handle}
    /\ last' = [NoCall EXCEPT !.op = "freeEncoder", !.handle = handle]
    /\ UNCHANGED crashed

EncodeCapacity_fixed(outLen) == MaxFrameBytes

\* line 38: nbytes is the length of the out array
EncodeCapacity(outLen) == outLen

EncodeOutMode_abort == JNI_ABORT

\* line 43: the out array is released with mode 0 (copy back and free)
EncodeOutMode == 0

encode(handle, outLen, isCopy) ==
    /\ ~crashed
    /\ LET nbytes == EncodeCapacity(outLen)
           r      == lc3_encode(heap[handle], nbytes)
           hp1    == [heap EXCEPT ![handle] = r.inst]
       IN  /\ r.ret >= 0 => heap[handle].hist < MaxFrames
           /\ heap' \in (IF r.ret >= 0 THEN OutOfBounds(hp1, handle, 0 .. MaxFrames) ELSE {hp1})
           /\ last' = [NoCall EXCEPT !.op = "encode", !.handle = handle,
                          !.ret = r.ret, !.len = outLen, !.nbytes = nbytes,
                          !.acquired = <<"pcm", "out">>,
                          !.released = <<"pcm", "out">>,
                          !.visible = ReleaseByteArrayElements(r.written, isCopy,
                                                               EncodeOutMode),
                          !.frame = NS(heap[handle].dt, heap[handle].srPcm)]
    /\ UNCHANGED <<handles, crashed>>

(* ---------------- Decoder ---------------- *)
createDecoder(dtUs, srHz, srPcmHz) ==
    /\ ~crashed
    /\ LET sz == lc3_decoder_size(dtUs, srHz) IN
       \E mem \in malloc(heap, sz) :
          LET dec == lc3_setup_decoder(dtUs, srHz, srPcmHz, mem)
              hp1 == IF mem = NULL THEN heap
                     ELSE [heap EXCEPT ![mem] =
                              IF dec # NULL
                              THEN Instance("dec", sz, dtUs, srHz, srPcmHz)
                              ELSE RawBlock(sz)]
          IN  /\ heap' \in (IF dec # NULL THEN OutOfBounds(hp1, dec, {0}) ELSE {hp1})
              /\ handles' = IF dec # NULL THEN handles \cup {dec} ELSE handles
              /\ last' = [NoCall EXCEPT !.op = "createDecoder", !.ret = dec,
                             !.cfgOk = SupportedConfig(dtUs, srHz, srPcmHz)]
    /\ UNCHANGED crashed

freeDecoder(handle) ==
    /\ ~crashed
    /\ heap' = IF handle # NULL THEN free(heap, handle) ELSE heap
    /\ handles' = handles \ {handle}
    /\ last' = [NoCall EXCEPT !.op = "freeDecoder", !.handle = handle]
    /\ UNCHANGED crashed

DecodeReturn_nbytes(ret, nbytes) == nbytes

\* line 80: decode returns the status lc3_decode gave
DecodeReturn(ret, nbytes) == ret

\* line 79: the pcm array is released with mode 0 (copy back and free)
DecodePcmMode == 0

\* in: the in_ array; outcome and g resolve the calls made on a null in_
\* (GetArrayLength on line 74, ReleaseByteArrayElements on line 78), which
\* the JNI leaves undefined: the runtime aborts, or the call goes on.  The
\* pcm array is taken as a copy, the case in which the release mode matters.
decode(handle, in, outcome, g) ==
    /\ ~crashed
    /\ heap[handle].hist < MaxFrames
    /\ in.isNull \/ outcome = "return"
    /\ (in.isNull /\ outcome # "abort74") \/ g = 0
    /\ LET acq    == IF in.isNull THEN <<"pcm">> ELSE <<"in", "pcm">>
           nbytes == IF in.isNull THEN g ELSE in.len
           r      == lc3_decode(heap[handle], in.isNull, nbytes, in.body)
           hp1    == [heap EXCEPT ![handle] = r.inst]
           call   == [NoCall EXCEPT !.op = "decode", !.handle = handle,
                         !.len = IF in.isNull THEN -1 ELSE in.len,
                         !.nbytes = nbytes, !.acquired = acq,
                         !.frame = NS(heap[handle].dt, heap[handle].srPcm)]
       IN  IF outcome = "abort74"
           THEN /\ heap' = heap
                /\ crashed' = TRUE
                /\ last' = [call EXCEPT !.returned = FALSE]
           ELSE /\ heap' \in OutOfBounds(hp1, handle, 0 .. MaxFrames)
                /\ crashed' = (outcome = "abort78")
                /\ last' = IF outcome = "abort78"
                           THEN [call EXCEPT !.returned = FALSE, !.plc = r.plc,
                                    !.malformed = r.malformed]
                           ELSE [call EXCEPT
                                    !.ret = DecodeReturn(r.ret, nbytes),
                                    !.plc = r.plc, !.malformed = r.malformed,
                                    !.released = <<"in", "pcm">>,
                                    !.visible = ReleaseByteArrayElements(r.pcm, TRUE,
                                                                         DecodePcmMode)]
    /\ UNCHANGED handles

(* ---------------- the Java caller ---------------- *)
\* The caller uses a handle only between its creation and its release, and
\* only with the entry points of its kind.
EncoderHandles == {h \in handles : heap[h].kind = "enc"}
DecoderHandles == {h \in handles : heap[h].kind = "dec"}

Next ==
    \/ \E dtUs \in DurationInputs, srHz \in RateInputs, srPcmHz \in RateInputs :
          createEncoder(dtUs, srHz, srPcmHz)
    \/ \E handle \in EncoderHandles \cup {NULL} : freeEncoder(handle)
    \/ \E handle \in EncoderHandles, outLen \in OutLengths, isCopy \in BOOLEAN :
          encode(handle, outLen, isCopy)
    \/ \E dtUs \in DurationInputs, srHz \in RateInputs, srPcmHz \in RateInputs :
          createDecoder(dtUs, srHz, srPcmHz)
    \/ \E handle \in DecoderHandles \cup {NULL} : freeDecoder(handle)
    \/ \E handle \in DecoderHandles, in \in InBuffers,
          outcome \in NullArrayOutcomes, g \in GarbageLengths :
          decode(handle, in, outcome, g)

Spec == Init /\ [][Next]_vars

\* a caller that only creates and releases instances
NextLife ==
    \/ \E dtUs \in DurationInputs, srHz \in RateInputs, srPcmHz \in RateInputs :
          createEncoder(dtUs, srHz, srPcmHz)
    \/ \E handle \in EncoderHandles \cup {NULL} : freeEncoder(handle)
    \/ \E dtUs \in DurationInputs, srHz \in RateInputs, srPcmHz \in RateInputs :
          createDecoder(dtUs, srHz, srPcmHz)
    \/ \E handle \in DecoderHandles \cup {NULL} : freeDecoder(handle)

SpecLife == Init /\ [][NextLife]_vars

\* a caller that only uses encoders
NextEnc ==
    \/ \E dtUs \in DurationInputs, srHz \in RateInputs, srPcmHz \in RateInputs :
          createEncoder(dtUs, srHz, srPcmHz)
    \/ \E handle \in EncoderHandles \cup {NULL} : freeEncoder(handle)
    \/ \E handle \in EncoderHandles, outLen \in OutLengths, isCopy \in BOOLEAN :
          encode(handle, outLen, isCopy)

SpecEnc == Init /\ [][NextEnc]_vars

\* a caller that only uses decoders
NextDec ==
    \/ \E dtUs \in DurationInputs, srHz \in RateInputs, srPcmHz \in RateInputs :
          createDecoder(dtUs, srHz, srPcmHz)
    \/ \E handle \in DecoderHandles \cup {NULL} : freeDecoder(handle)
    \/ \E handle \in DecoderHandles, in \in InBuffers,
          outcome \in NullArrayOutcomes, g \in GarbageLengths :
          decode(handle, in, outcome, g)

SpecDec == Init /\ [][NextDec]_vars

(* ======================= properties ======================= *)
Creates == {"createEncoder", "createDecoder"}
Frees == {"freeEncoder", "freeDecoder"}
Instances(hp) == {a \in Addr : IsInstance(hp[a])}
Count(seq, name) == Cardinality({i \in DOMAIN seq : seq[i] = name})

\* C1: freeEncoder and freeDecoder with a zero handle release nothing and
\* change no state, each time they are called; with a non-zero handle they
\* release exactly the block the handle designates.
FreeReleasesItsBlock ==
    [][last'.op \in Frees =>
          IF last'.handle = NULL
          THEN heap' = heap /\ handles' = handles /\ crashed' = crashed
          ELSE /\ heap[last'.handle] # NoBlock
               /\ heap' = [heap EXCEPT ![last'.handle] = NoBlock]]_vars

\* a non-zero handle has been freed while another instance stays allocated
FreeReleasesItsBlockWitness ==
    /\ last.op \in Frees
    /\ last.handle # NULL
    /\ heap[last.handle] = NoBlock
    /\ Instances(heap) # {}

\* C2: createEncoder and createDecoder given an unsupported combination
\* return the zero handle: the caller gains no handle and no instance that
\* encode or decode would take as live comes to exist.
UnsupportedConfigFails ==
    [][(last'.op \in Creates /\ ~last'.cfgOk) =>
          /\ last'.ret = NULL
          /\ handles' = handles
          /\ Instances(heap') = Instances(heap)]_vars

\* an unsupported createEncoder returned after malloc had given it a block
UnsupportedConfigFailsWitness ==
    /\ last.op = "createEncoder"
    /\ ~last.cfgOk
    /\ \E a \in Addr : heap[a].kind = "raw"

\* C3: the block of every instance has exactly the size the instance set up
\* for its configuration requires.
BlockFitsInstance ==
    \A a \in Addr : IsInstance(heap[a]) => heap[a].size = RequiredSize(heap[a])

\* C4: encode passes the length of outBuffer as the capacity; a non-negative
\* return is the number of bytes the caller finds written, at most that
\* length; a negative return signals an error and nothing is written.
EncodeReturnsBytesWritten ==
    last.op = "encode" =>
        /\ last.nbytes = last.len
        /\ last.ret >= 0 => (last.ret <= last.len /\ last.visible = last.ret)
        /\ last.ret < 0 => (last.len < MinFrameBytes /\ last.visible = 0)

\* an encode that wrote fewer bytes than outBuffer holds
EncodeReturnsBytesWrittenWitness ==
    last.op = "encode" /\ last.ret > 0 /\ last.ret < last.len

\* C5: decode with a null or zero-length input buffer returns normally with
\* status 0, by concealment, and the caller finds a full frame of PCM.
DecodeEmptyConceals ==
    (last.op = "decode" /\ last.len <= 0) =>
        /\ last.returned
        /\ last.ret = 0
        /\ last.plc
        /\ last.visible = last.frame

\* C6: a decode that returns gives 0 unless the input was malformed, and a
\* non-zero return leaves the handle a live decoder that takes further
\* decode calls.
DecodeStatusIsCallLocal ==
    (last.op = "decode" /\ last.returned) =>
        /\ last.ret # 0 <=> last.malformed
        /\ last.ret # 0 =>
              /\ ~crashed
              /\ last.handle \in DecoderHandles
              /\ heap[last.handle].hist < MaxFrames =>
                    \E in \in InBuffers :
                       ENABLED decode(last.handle, in, "return", 0)

\* a decode of a malformed frame returned non-zero on a decoder that a
\* further decode call can be made on
DecodeStatusIsCallLocalWitness ==
    /\ last.op = "decode"
    /\ last.returned
    /\ last.ret # 0
    /\ last.malformed
    /\ \E in \in InBuffers : ENABLED decode(last.handle, in, "return", 0)

\* C7: when encode or decode returns, every buffer it acquired has been
\* released exactly once and no buffer was released that was not acquired.
BuffersReleasedOnce ==
    (last.op \in {"encode", "decode"} /\ last.returned) =>
        \A name \in {"in", "pcm", "out"} :
           Count(last.released, name) = Count(last.acquired, name)

NoSharedState ==
    [][\A a \in Addr :
          (IsInstance(heap[a])
             /\ a # (IF last'.op \in Creates THEN last'.ret ELSE last'.handle))
          => heap'[a] = heap[a]]_vars

\* C10: every allocated block is designated by a handle the caller holds; a
\* create that returned the zero handle left no block behind.
NoBlockLeaked ==
    \A a \in Addr : heap[a] # NoBlock => a \in handles

====
